---- MODULE Spec2Model ----
(***************************************************************************)
(* Model of the deployment bootstrap scripts of the bundle:                *)
(*   src/bundle/prisma-env.cjs      (EnvLoader, EnvConfigurator, ToolInvoker)*)
(*   src/bundle/generate-schema.cjs (EnvLoader, SchemaGenerator)           *)
(*   src/unnamed/part_000           (the postinstall flow)                 *)
(*                                                                         *)
(* Text is a sequence of symbols.  A symbol is one character ("=", " ",    *)
(* "p", ...) or one identifier / quoted token that the regular expressions *)
(* of the source treat as an indivisible literal ("DATABASE_URL",          *)
(* "provider", "envDATABASE_PROVIDER" for env("DATABASE_PROVIDER"), ...).  *)
(* The regular expressions, trim, startsWith, slice, split and join are    *)
(* computed on these sequences as the JavaScript runtime computes them.    *)
(***************************************************************************)
EXTENDS Integers, Sequences, FiniteSets, TLC

VARIABLES
  pc,            \* position of the script that is running
  env,           \* process.env of the running (parent) process: name -> text
  envFile,       \* content of the .env file beside the scripts, or NoFile
  env0,          \* process.env as the process was started
  envAtConfigure,\* process.env when configureDatabaseEnv() was entered
  command,       \* prisma-env: process.argv.slice(2).join(' ')
  provider,      \* prisma-env line 110 / generate-schema line 58
  dirExists,     \* whether the database directory exists on disk
  dirCreated,    \* whether this run created the database directory
  configured,    \* whether configureDatabaseEnv() has returned
  spawned,       \* subprocesses spawned so far, in order
  childEnv,      \* process.env of the generate-schema child process
  childProvider, \* generate-schema line 58, in the child
  schema,        \* content of prisma/schema.prisma, or NoFile
  cmdStatus,     \* error.status of the requested command: Null or << n >>
  exitCode,      \* exit code of the script: Null while it runs, else << n >>
  template0,     \* schema generator runs: the template before the first run
  prevSchema,    \* schema generator runs: the file before the latest run
  provs,         \* schema generator runs: the providers of the runs so far
  cloudMode,     \* postinstall line 47
  events         \* postinstall: steps executed and messages logged, in order

vars == << pc, env, envFile, env0, envAtConfigure, command, provider, dirExists,
           dirCreated, configured, spawned, childEnv,
           childProvider, schema, cmdStatus, exitCode, template0, prevSchema,
           provs, cloudMode, events >>

\* ------------------------------------------------------------------ bounds

\* Lines of a .env file.
MaxEnvLines == 2
\* Lines of a schema template.
MaxLines == 3
\* Consecutive runs of the schema generator on the same file.
MaxRuns == 2

\* ------------------------------------------------------------ text helpers

NoFile == << "ENOENT" >>

\* An optional number is << >> (null / not there yet) or << n >>.
Null == << >>

\* String.prototype.trim strips white space and line terminators.
IsSpace(c) == c \in {" ", "\t", "\r", "\n"}

\* The regular expression class \s.
IsRegexSpace(c) == c \in {" ", "\t", "\r", "\n"}

\* What "." of a regular expression does not match.
IsLineTerminator(c) == c \in {"\n", "\r"}

startsWith(s, prefix) ==
  /\ Len(s) >= Len(prefix)
  /\ SubSeq(s, 1, Len(prefix)) = prefix

endsWith(s, suffix) ==
  /\ Len(s) >= Len(suffix)
  /\ SubSeq(s, Len(s) - Len(suffix) + 1, Len(s)) = suffix

trim(s) ==
  LET keep == {i \in 1..Len(s) : ~IsSpace(s[i])}
  IN  IF keep = {} THEN << >>
      ELSE LET first == CHOOSE i \in keep : \A j \in keep : i <= j
               last  == CHOOSE i \in keep : \A j \in keep : i >= j
           IN  SubSeq(s, first, last)

\* value.slice(1, -1)
slice1(s) == SubSeq(s, 2, Len(s) - 1)

\* content.split('\n')
RECURSIVE split(_)
split(content) ==
  LET nl == {i \in 1..Len(content) : content[i] = "\n"}
  IN  IF nl = {} THEN << content >>
      ELSE LET i == CHOOSE k \in nl : \A j \in nl : k <= j
           IN  << SubSeq(content, 1, i - 1) >>
                 \o split(SubSeq(content, i + 1, Len(content)))

\* lines.join('\n')
RECURSIVE join(_)
join(lines) ==
  IF Len(lines) = 0 THEN << >>
  ELSE IF Len(lines) = 1 THEN lines[1]
  ELSE lines[1] \o << "\n" >> \o join(Tail(lines))

\* ------------------------------------------------------------- process.env

DATABASE_URL == << "DATABASE_URL" >>
DIRECT_URL == << "DIRECT_URL" >>
DATABASE_PROVIDER == << "DATABASE_PROVIDER" >>
APPDATA == << "APPDATA" >>

IsSet(e, key) == key \in DOMAIN e

\* JavaScript truthiness of process.env[key]: undefined and "" are falsy.
Truthy(e, key) == key \in DOMAIN e /\ e[key] # << >>

\* process.env[key] = value
setEnv(e, key, value) ==
  [k \in (DOMAIN e) \cup {key} |-> IF k = key THEN value ELSE e[k]]

\* ------------------------------------------------------------- EnvLoader

\* line.match(/^([^=]+)=(.*)$/): the index of the "=" that ends group 1, or 0.
matchAssignment(line) ==
  LET eqs == {i \in 1..Len(line) : line[i] = "="}
  IN  IF eqs = {} THEN 0
      ELSE LET i == CHOOSE k \in eqs : \A j \in eqs : k <= j
           IN  IF i >= 2 /\ \A j \in (i + 1)..Len(line) : ~IsLineTerminator(line[j])
               THEN i ELSE 0

\* Remove quotes if present.
unquote(value) ==
  IF \/ (startsWith(value, << "\"" >>) /\ endsWith(value, << "\"" >>))
     \/ (startsWith(value, << "'" >>) /\ endsWith(value, << "'" >>))
  THEN slice1(value)
  ELSE value

\* Faulty variant of the precedence test of the loader: the file always wins.
setIfUnset_overwrite(e, key, value) == setEnv(e, key, value)

\* if (!process.env[key]) process.env[key] = value
setIfUnset(e, key, value) ==
  IF ~Truthy(e, key) THEN setEnv(e, key, value) ELSE e

\* The body of the forEach callback, for one line.
applyLine(e, line) ==
  IF line = << >> \/ startsWith(trim(line), << "#" >>) THEN e
  ELSE LET i == matchAssignment(line)
       IN  IF i = 0 THEN e
           ELSE setIfUnset(e, trim(SubSeq(line, 1, i - 1)),
                           unquote(trim(SubSeq(line, i + 1, Len(line)))))

RECURSIVE applyLines(_, _)
applyLines(e, lines) ==
  IF Len(lines) = 0 THEN e
  ELSE applyLines(applyLine(e, lines[1]), Tail(lines))

\* loadEnvFile() of prisma-env.cjs; generate-schema.cjs and the postinstall
\* script carry the same function, statement for statement.
loadEnvFile(e, file) ==
  IF file = NoFile THEN e ELSE applyLines(e, split(file))

\* ------------------------------------------------------- ProviderDetector

\* 'postgresql://'
PostgresqlPrefix ==
  << "p", "o", "s", "t", "g", "r", "e", "s", "q", "l", ":", "/", "/" >>

postgresql == << "postgresql" >>
sqlite == << "sqlite" >>
Providers == {postgresql, sqlite}

\* Faulty variant of the classifier, with a wrong literal: 'postgres' is accepted.
getDatabaseProvider_postgres(e) ==
  IF Truthy(e, DATABASE_URL)
     /\ startsWith(e[DATABASE_URL], SubSeq(PostgresqlPrefix, 1, 8))
  THEN postgresql
  ELSE sqlite

\* getDatabaseProvider() of prisma-env.cjs
getDatabaseProvider(e) ==
  IF Truthy(e, DATABASE_URL) /\ startsWith(e[DATABASE_URL], PostgresqlPrefix)
  THEN postgresql
  ELSE sqlite

\* getDatabaseProvider() of generate-schema.cjs
getDatabaseProviderGen(e) ==
  IF Truthy(e, DATABASE_URL) /\ startsWith(e[DATABASE_URL], PostgresqlPrefix)
  THEN postgresql
  ELSE sqlite

\* isCloudMode() of the postinstall script: databaseUrl && databaseUrl.startsWith(..)
\* evaluates to undefined, to '', or to a boolean.
isCloudMode(e) ==
  IF ~IsSet(e, DATABASE_URL) THEN "undefined"
  ELSE IF e[DATABASE_URL] = << >> THEN "empty string"
  ELSE IF startsWith(e[DATABASE_URL], PostgresqlPrefix) THEN "true"
  ELSE "false"

\* JavaScript truthiness of the value isCloudMode() returned.
TruthyValue(v) == v = "true"

\* ----------------------------------------------------------- PathResolver

Platforms == {"darwin", "win32", "linux"}

\* os.homedir(), one symbol
homedir == << "HOME" >>

RECURSIVE pathJoin(_)
pathJoin(parts) ==
  IF Len(parts) = 1 THEN parts[1]
  ELSE parts[1] \o << "/" >> \o pathJoin(Tail(parts))

\* getDatabaseDirectory()
getDatabaseDirectory(e, platform) ==
  LET userDataPath ==
        IF platform = "darwin"
        THEN pathJoin(<< homedir, << "Library" >>, << "Application Support" >>,
                         << "OnlyLabs" >> >>)
        ELSE IF platform = "win32"
        THEN pathJoin(<< IF Truthy(e, APPDATA) THEN e[APPDATA]
                         ELSE pathJoin(<< homedir, << "AppData" >>, << "Roaming" >> >>),
                         << "OnlyLabs" >> >>)
        ELSE pathJoin(<< homedir, << ".config" >>, << "OnlyLabs" >> >>)
  IN  pathJoin(<< userDataPath, << "database" >> >>)

\* `file:${dbPath}`
fileUrl(dbDir) ==
  << "f", "i", "l", "e", ":" >> \o pathJoin(<< dbDir, << "dev.db" >> >>)

\* --------------------------------------------------------- EnvConfigurator

\* Lines 75-86 once the directory is there: the synthesized DATABASE_URL.
withDatabaseUrl(e, platform) ==
  IF ~Truthy(e, DATABASE_URL)
  THEN setEnv(e, DATABASE_URL, fileUrl(getDatabaseDirectory(e, platform)))
  ELSE e

\* Faulty variant of lines 92-95: the mirroring without its provider test.
withDirectUrl_always(e) ==
  IF ~Truthy(e, DIRECT_URL) THEN setEnv(e, DIRECT_URL, e[DATABASE_URL]) ELSE e

\* Lines 92-95: DIRECT_URL mirrors DATABASE_URL for postgresql.
withDirectUrl(e) ==
  IF ~Truthy(e, DIRECT_URL) /\ getDatabaseProvider(e) = postgresql
  THEN setEnv(e, DIRECT_URL, e[DATABASE_URL])
  ELSE e

\* configureDatabaseEnv(), its effect on process.env when mkdirSync does not throw.
configureDatabaseEnv(e, platform) ==
  LET e1 == withDatabaseUrl(e, platform)
      e2 == setEnv(e1, DATABASE_PROVIDER, getDatabaseProvider(e1))
  IN  withDirectUrl(e2)

\* -------------------------------------------------------- SchemaGenerator

EnvDatabaseProvider == "env(\"DATABASE_PROVIDER\")"
EnvDirectUrl == "env(\"DIRECT_URL\")"
EnvDatabaseUrl == "env(\"DATABASE_URL\")"

\* The quoted literal "postgresql" or "sqlite" of a provider.
quoted(p) == IF p = postgresql THEN "\"postgresql\"" ELSE "\"sqlite\""
ProviderLiterals == {quoted(p) : p \in Providers}

\* \s* from index i: the index of the first symbol that is not white space.
skipSpaces(text, i) ==
  LET stop == {j \in i..Len(text) : ~IsRegexSpace(text[j])}
  IN  IF stop = {} THEN Len(text) + 1
      ELSE CHOOSE j \in stop : \A k \in stop : j <= k

\* name\s*=\s*(value) matched at index i: the index of its last symbol, or 0.
assignmentEnd(text, i, name, values) ==
  IF i > Len(text) \/ text[i] # name THEN 0
  ELSE LET j == skipSpaces(text, i + 1)
       IN  IF j > Len(text) \/ text[j] # "=" THEN 0
           ELSE LET k == skipSpaces(text, j + 1)
                IN  IF k <= Len(text) /\ text[k] \in values THEN k ELSE 0

\* String.prototype.replace with a regular expression without the g flag.
replaceFirst(text, name, values, replacement) ==
  LET hits == {i \in 1..Len(text) : assignmentEnd(text, i, name, values) > 0}
  IN  IF hits = {} THEN text
      ELSE LET i == CHOOSE h \in hits : \A k \in hits : h <= k
           IN  SubSeq(text, 1, i - 1) \o replacement
                 \o SubSeq(text, assignmentEnd(text, i, name, values) + 1, Len(text))

\* /\n\s*directUrl\s*=\s*env\("DIRECT_URL"\)/ matched at index i: its end, or 0.
directUrlLineEnd(text, i) ==
  IF i > Len(text) \/ text[i] # "\n" THEN 0
  ELSE assignmentEnd(text, skipSpaces(text, i + 1), "directUrl", {EnvDirectUrl})

\* String.prototype.replace of that expression with the g flag, by ''.
RECURSIVE removeDirectUrlLines(_, _)
removeDirectUrlLines(text, i) ==
  IF i > Len(text) THEN << >>
  ELSE IF directUrlLineEnd(text, i) > 0
       THEN removeDirectUrlLines(text, directUrlLineEnd(text, i) + 1)
       ELSE << text[i] >> \o removeDirectUrlLines(text, i + 1)

\* `provider = "${provider}"`
providerAssignment(p) == << "provider", " ", "=", " ", quoted(p) >>

\* Lines 65-68: the placeholder becomes the literal.
replacePlaceholder(text, p) ==
  replaceFirst(text, "provider", {EnvDatabaseProvider}, providerAssignment(p))

\* Lines 69-72: a hardcoded literal becomes the literal.
replaceLiteral(text, p) ==
  replaceFirst(text, "provider", ProviderLiterals, providerAssignment(p))

\* Faulty variant of lines 74-87: the removal without the g flag.
handleDirectUrl_first(text, isCloud) ==
  IF isCloud
  THEN replaceFirst(text, "directUrl", {EnvDirectUrl},
                    << "directUrl", " ", "=", " ", EnvDirectUrl >>)
  ELSE LET hits == {i \in 1..Len(text) : directUrlLineEnd(text, i) > 0}
       IN  IF hits = {} THEN text
           ELSE LET i == CHOOSE h \in hits : \A k \in hits : h <= k
                IN  SubSeq(text, 1, i - 1)
                      \o SubSeq(text, directUrlLineEnd(text, i) + 1, Len(text))

\* Lines 74-87: directUrl is kept for postgresql and removed for sqlite.
handleDirectUrl(text, isCloud) ==
  IF isCloud
  THEN replaceFirst(text, "directUrl", {EnvDirectUrl},
                    << "directUrl", " ", "=", " ", EnvDirectUrl >>)
  ELSE removeDirectUrlLines(text, 1)

\* Lines 58-87: the text written back for schemaTemplate and provider.
generatedSchema(schemaTemplate, p) ==
  handleDirectUrl(replaceLiteral(replacePlaceholder(schemaTemplate, p), p),
                  p = postgresql)

\* What a schema text holds.
CountOf(text, name, values) ==
  Cardinality({i \in 1..Len(text) : assignmentEnd(text, i, name, values) > 0})
Placeholders(text) == CountOf(text, "provider", {EnvDatabaseProvider})
Literals(text, p) == CountOf(text, "provider", {quoted(p)})
DirectUrls(text) == CountOf(text, "directUrl", {EnvDirectUrl})

\* The lines a template is made of.
PlaceholderLine == << " ", "provider", " ", "=", " ", EnvDatabaseProvider >>
PlaceholderTight == << "provider", "=", EnvDatabaseProvider >>
PostgresqlLine == << " ", "provider", " ", "=", " ", "\"postgresql\"" >>
SqliteTight == << "provider", "=", "\"sqlite\"" >>
DirectUrlLine == << " ", "directUrl", " ", "=", " ", EnvDirectUrl >>
DirectUrlTight == << "directUrl", "=", EnvDirectUrl >>
UrlLine == << " ", "url", " ", "=", " ", EnvDatabaseUrl >>
ClientLine == << " ", "provider", " ", "=", " ", "\"prisma-client-js\"" >>
BlankLine == << >>

TemplateLines ==
  { PlaceholderLine, PlaceholderTight, PostgresqlLine, SqliteTight, DirectUrlLine,
    DirectUrlTight, UrlLine, ClientLine, BlankLine }

Templates ==
  { join(ls) : ls \in UNION { [1..n -> TemplateLines] : n \in 1..MaxLines } }

\* The datasource block of the shipped template.
ShippedTemplate ==
  join(<< << "datasource db {" >>, PlaceholderLine, UrlLine, DirectUrlLine, << "}" >> >>)

\* ------------------------------------------------------------ the inputs

EmptyEnv == << >>

PgUrl == PostgresqlPrefix \o << "h" >>
PgDirectUrl == PostgresqlPrefix \o << "d" >>
PgFileUrl == PostgresqlPrefix \o << "f" >>
FileUrl == << "f", "i", "l", "e", ":", "x" >>
PostgresUrl == << "p", "o", "s", "t", "g", "r", "e", "s", ":", "/", "/", "h" >>

\* An environment holding each key of the function `choice` that is not Absent.
Absent == << "absent" >>
envOf(choice) ==
  [k \in {c \in DOMAIN choice : choice[c] # Absent} |-> choice[k]]

\* The environments prisma-env is started in.
Envs ==
  { envOf([k \in {DATABASE_URL, DIRECT_URL, DATABASE_PROVIDER} |->
             IF k = DATABASE_URL THEN u ELSE IF k = DIRECT_URL THEN d ELSE p])
    : u \in {Absent, << >>, PgUrl, FileUrl},
      d \in {Absent, << >>, PgDirectUrl},
      p \in {Absent, sqlite} }

\* The lines a .env file is made of.
EnvLines ==
  { << "DATABASE_URL", "=" >> \o PgFileUrl,
    << "DATABASE_URL", "=" >>,
    << " ", "DATABASE_URL", " ", "=", " ", "\"" >> \o FileUrl \o << "\"", " " >>,
    << "DIRECT_URL", "=", "'" >> \o PgDirectUrl \o << "'" >>,
    << "DIRECT_URL", "=" >>,
    << "DATABASE_PROVIDER", "=", "m", "y", "s", "q", "l" >>,
    << " ", "#", "DATABASE_URL", "=" >> \o PgFileUrl,
    << >> }

EnvFiles ==
  {NoFile} \cup
  { join(ls) : ls \in UNION { [1..n -> EnvLines] : n \in 1..MaxEnvLines } }

\* The environments the schema generator is started in on its own.
GeneratorEnvs ==
  { EmptyEnv, envOf([k \in {DATABASE_URL} |-> PgUrl]),
    envOf([k \in {DATABASE_URL} |-> FileUrl]) }

\* -------------------------------------------- generate-schema.cjs, as a run

\* Lines 41-58 of generate-schema.cjs started with environment e: the
\* environment after loadEnvFile() and the provider computed from it.
GeneratorEnv(e) == loadEnvFile(e, envFile)

\* The whole script, run to its end on the schema file (lines 41-92).
RunGenerateSchema ==
  /\ pc = "generate-schema"
  /\ Len(provs) < MaxRuns
  /\ schema # NoFile
  /\ \E e \in GeneratorEnvs :
       /\ childEnv' = GeneratorEnv(e)
       /\ childProvider' = getDatabaseProviderGen(GeneratorEnv(e))
       /\ schema' = generatedSchema(schema, getDatabaseProviderGen(GeneratorEnv(e)))
       /\ provs' = Append(provs, getDatabaseProviderGen(GeneratorEnv(e)))
  /\ prevSchema' = schema
  /\ UNCHANGED << pc, env, envFile, env0, envAtConfigure, command, provider,
                  dirExists, dirCreated, configured, spawned, cmdStatus, exitCode,
                  template0, cloudMode, events >>

InitGen ==
  /\ pc = "generate-schema"
  /\ schema \in Templates
  /\ template0 = schema
  /\ prevSchema = schema
  /\ provs = << >>
  /\ env = EmptyEnv /\ envFile = NoFile /\ env0 = EmptyEnv
  /\ envAtConfigure = EmptyEnv /\ command = << >> /\ provider = << >>
  /\ dirExists = FALSE /\ dirCreated = FALSE /\ configured = FALSE
  /\ spawned = << >> /\ childEnv = EmptyEnv /\ childProvider = << >>
  /\ cmdStatus = Null /\ exitCode = Null
  /\ cloudMode = "undefined" /\ events = << >>

NextGen == RunGenerateSchema

SpecGen == InitGen /\ [][NextGen]_vars

\* ------------------------------------------------------- prisma-env.cjs

GenerateSchemaCommand == "node generate-schema.cjs"
RequestedCommand == "command"

\* The command lines given: none, or one prisma command.
Commands == { << >>, << "prisma generate" >> }

\* error.status of a failed command: a non-zero exit code, or null when the
\* child was killed by a signal.
ExitStatuses == { << 0 >>, << 1 >>, << 2 >>, Null }

\* Faulty variant of error.status || 1: a null status becomes 0.
exitStatus_raw(status) == IF status = Null THEN << 0 >> ELSE status

\* error.status || 1
exitStatus(status) ==
  IF status = Null \/ status = << 0 >> THEN << 1 >> ELSE status

\* Line 43: loadEnvFile()
LoadEnv ==
  /\ pc = "load"
  /\ env' = loadEnvFile(env, envFile)
  /\ pc' = "args"
  /\ UNCHANGED << envFile, env0, envAtConfigure, command, provider, dirExists,
                  dirCreated, configured, spawned, childEnv, childProvider,
                  schema, cmdStatus, exitCode, template0, prevSchema, provs,
                  cloudMode, events >>

\* Faulty variant of lines 99-105: the usage check is dropped.
CheckCommand_missing ==
  /\ pc = "args"
  /\ pc' = "configure"
  /\ UNCHANGED << env, envFile, env0, envAtConfigure, command, provider,
                  dirExists, dirCreated, configured, spawned, childEnv,
                  childProvider, schema, cmdStatus, exitCode, template0,
                  prevSchema, provs, cloudMode, events >>

\* Lines 99-105: no command is a usage error, exit code 1.
CheckCommand ==
  /\ pc = "args"
  /\ IF command = << >>
     THEN pc' = "exited" /\ exitCode' = << 1 >>
     ELSE pc' = "configure" /\ exitCode' = exitCode
  /\ UNCHANGED << env, envFile, env0, envAtConfigure, command, provider,
                  dirExists, dirCreated, configured, spawned, childEnv,
                  childProvider, schema, cmdStatus, template0, prevSchema,
                  provs, cloudMode, events >>

\* Lines 108-113: configureDatabaseEnv() and the provider reported.  The
\* platform and the state of the database directory are read here once; a
\* mkdirSync that throws is an uncaught exception, exit code 1.
Configure ==
  /\ pc = "configure"
  /\ envAtConfigure' = env
  /\ \E platform \in Platforms, exists \in BOOLEAN, mkdirOk \in BOOLEAN :
       IF ~Truthy(env, DATABASE_URL) /\ ~exists /\ ~mkdirOk
       THEN /\ pc' = "exited"
            /\ exitCode' = << 1 >>
            /\ dirExists' = FALSE
            /\ UNCHANGED << env, provider, dirCreated, configured >>
       ELSE /\ env' = configureDatabaseEnv(env, platform)
            /\ provider' = getDatabaseProvider(env')
            /\ dirCreated' = (~Truthy(env, DATABASE_URL) /\ ~exists)
            /\ dirExists' = (exists \/ dirCreated')
            /\ configured' = TRUE
            /\ pc' = "generate"
            /\ exitCode' = exitCode
  /\ UNCHANGED << envFile, env0, command, spawned, childEnv, childProvider,
                  schema, cmdStatus, template0, prevSchema, provs, cloudMode,
                  events >>

\* Lines 116-124: the schema generator runs as a child with process.env.  The
\* child (generate-schema.cjs 41-92) loads .env, reads the template, rewrites
\* it and writes it back; a template it cannot read or write makes it exit
\* non-zero, which the parent turns into exit code 1.
GenerateSchema ==
  /\ pc = "generate"
  /\ spawned' = Append(spawned, GenerateSchemaCommand)
  /\ childEnv' = GeneratorEnv(env)
  /\ \E writable \in BOOLEAN :
       IF schema = NoFile \/ ~writable
       THEN /\ pc' = "exited"
            /\ exitCode' = << 1 >>
            /\ childProvider' = IF schema = NoFile THEN childProvider
                                ELSE getDatabaseProviderGen(childEnv')
            /\ UNCHANGED << schema, prevSchema, provs >>
       ELSE /\ childProvider' = getDatabaseProviderGen(childEnv')
            /\ schema' = generatedSchema(schema, childProvider')
            /\ prevSchema' = schema
            /\ provs' = Append(provs, childProvider')
            /\ pc' = "exec"
            /\ exitCode' = exitCode
  /\ UNCHANGED << env, envFile, env0, envAtConfigure, command, provider,
                  dirExists, dirCreated, configured, cmdStatus, template0,
                  cloudMode, events >>

\* Lines 127-134: the requested command runs; the script ends with 0 when it
\* succeeded and with error.status || 1 when execSync threw.
ExecCommand ==
  /\ pc = "exec"
  /\ spawned' = Append(spawned, RequestedCommand)
  /\ \E status \in ExitStatuses :
       /\ cmdStatus' = status
       /\ exitCode' = IF status = << 0 >> THEN << 0 >> ELSE exitStatus(status)
  /\ pc' = "exited"
  /\ UNCHANGED << env, envFile, env0, envAtConfigure, command, provider,
                  dirExists, dirCreated, configured, childEnv, childProvider,
                  schema, template0, prevSchema, provs, cloudMode, events >>

InitEnv ==
  /\ pc = "load"
  /\ env \in Envs
  /\ env0 = env
  /\ envFile \in EnvFiles
  /\ command \in Commands
  /\ schema \in {ShippedTemplate, NoFile}
  /\ template0 = schema
  /\ prevSchema = schema
  /\ provs = << >>
  /\ envAtConfigure = EmptyEnv /\ provider = << >>
  /\ dirExists = FALSE /\ dirCreated = FALSE /\ configured = FALSE
  /\ spawned = << >> /\ childEnv = EmptyEnv /\ childProvider = << >>
  /\ cmdStatus = Null /\ exitCode = Null
  /\ cloudMode = "undefined" /\ events = << >>

NextEnv ==
  \/ LoadEnv
  \/ CheckCommand
  \/ Configure
  \/ GenerateSchema
  \/ ExecCommand

SpecEnv == InitEnv /\ [][NextEnv]_vars

\* ------------------------------------------------- the postinstall script

GenerateStep == "node prisma-env.cjs \"npx prisma generate\""
PushCloudStep == "node prisma-env.cjs \"npx prisma db push --skip-generate\""
PushLocalStep ==
  "node prisma-env.cjs \"npx prisma db push --accept-data-loss --skip-generate\""
PushSteps == {PushCloudStep, PushLocalStep}

ClientGenerated == "Prisma client generated"
CloudUpdated == "Database schema updated successfully (cloud)"
CloudWarning == "Database schema update failed"
LocalCreated == "Database tables created successfully (local)"
LocalWarning == "Failed to create database tables"
Completed == "Postinstall completed"
Failed == "Postinstall failed"

\* The values of DATABASE_URL the postinstall script is started with.
PostUrls ==
  { Absent, << >>, PgUrl, FileUrl, PostgresUrl, PostgresqlPrefix,
    SubSeq(PostgresqlPrefix, 1, Len(PostgresqlPrefix) - 1),
    << " " >> \o PgUrl,
    << "P" >> \o Tail(PgUrl) }

PostEnvs == { envOf([k \in {DATABASE_URL} |-> u]) : u \in PostUrls }

\* Line 39: loadEnvFile()
PostLoadEnv ==
  /\ pc = "post-load"
  /\ env' = loadEnvFile(env, envFile)
  /\ pc' = "post-mode"
  /\ UNCHANGED << envFile, env0, envAtConfigure, command, provider, dirExists,
                  dirCreated, configured, spawned, childEnv, childProvider,
                  schema, cmdStatus, exitCode, template0, prevSchema, provs,
                  cloudMode, events >>

\* Lines 47-51: const cloudMode = isCloudMode()
PostDetectMode ==
  /\ pc = "post-mode"
  /\ cloudMode' = isCloudMode(env)
  /\ pc' = "post-generate"
  /\ UNCHANGED << env, envFile, env0, envAtConfigure, command, provider,
                  dirExists, dirCreated, configured, spawned, childEnv,
                  childProvider, schema, cmdStatus, exitCode, template0,
                  prevSchema, provs, events >>

\* Lines 54-60 and the outer catch, 102-105: a failing client generation is
\* fatal, exit code 1.
PostGenerateClient ==
  /\ pc = "post-generate"
  /\ \E ok \in BOOLEAN :
       IF ok
       THEN /\ events' = events \o << GenerateStep, ClientGenerated >>
            /\ pc' = "post-push"
            /\ exitCode' = exitCode
       ELSE /\ events' = events \o << GenerateStep, Failed >>
            /\ pc' = "exited"
            /\ exitCode' = << 1 >>
  /\ UNCHANGED << env, envFile, env0, envAtConfigure, command, provider,
                  dirExists, dirCreated, configured, spawned, childEnv,
                  childProvider, schema, cmdStatus, template0, prevSchema,
                  provs, cloudMode >>

\* Lines 65-84 and 100: db push in cloud mode; its failure is a warning.
PostPushCloud ==
  /\ pc = "post-push"
  /\ TruthyValue(cloudMode)
  /\ \E ok \in BOOLEAN :
       events' = events \o << PushCloudStep,
                              IF ok THEN CloudUpdated ELSE CloudWarning,
                              Completed >>
  /\ pc' = "exited"
  /\ exitCode' = << 0 >>
  /\ UNCHANGED << env, envFile, env0, envAtConfigure, command, provider,
                  dirExists, dirCreated, configured, spawned, childEnv,
                  childProvider, schema, cmdStatus, template0, prevSchema,
                  provs, cloudMode >>

\* Faulty variant of the local branch, its inner catch rethrowing: a failing db
\* push reaches the outer catch and the install exits with 1.
PostPushLocal_fatal ==
  /\ pc = "post-push"
  /\ ~TruthyValue(cloudMode)
  /\ \E ok \in BOOLEAN :
       IF ok
       THEN /\ events' = events \o << PushLocalStep, LocalCreated, Completed >>
            /\ exitCode' = << 0 >>
       ELSE /\ events' = events \o << PushLocalStep, Failed >>
            /\ exitCode' = << 1 >>
  /\ pc' = "exited"
  /\ UNCHANGED << env, envFile, env0, envAtConfigure, command, provider,
                  dirExists, dirCreated, configured, spawned, childEnv,
                  childProvider, schema, cmdStatus, template0, prevSchema,
                  provs, cloudMode >>

\* Lines 85-98 and 100: db push in local mode; its failure is a warning.
PostPushLocal ==
  /\ pc = "post-push"
  /\ ~TruthyValue(cloudMode)
  /\ \E ok \in BOOLEAN :
       events' = events \o << PushLocalStep,
                              IF ok THEN LocalCreated ELSE LocalWarning,
                              Completed >>
  /\ pc' = "exited"
  /\ exitCode' = << 0 >>
  /\ UNCHANGED << env, envFile, env0, envAtConfigure, command, provider,
                  dirExists, dirCreated, configured, spawned, childEnv,
                  childProvider, schema, cmdStatus, template0, prevSchema,
                  provs, cloudMode >>

InitPost ==
  /\ pc = "post-load"
  /\ env \in PostEnvs
  /\ env0 = env
  /\ envFile \in EnvFiles
  /\ events = << >>
  /\ cloudMode = "undefined"
  /\ schema = ShippedTemplate /\ template0 = schema /\ prevSchema = schema
  /\ provs = << >>
  /\ envAtConfigure = EmptyEnv /\ command = << >> /\ provider = << >>
  /\ dirExists = FALSE /\ dirCreated = FALSE /\ configured = FALSE
  /\ spawned = << >> /\ childEnv = EmptyEnv /\ childProvider = << >>
  /\ cmdStatus = Null /\ exitCode = Null

NextPost ==
  \/ PostLoadEnv
  \/ PostDetectMode
  \/ PostGenerateClient
  \/ PostPushCloud
  \/ PostPushLocal

SpecPost == InitPost /\ [][NextPost]_vars

\* ------------------------------------------- claims on the schema generator

LastProvider == provs[Len(provs)]
OtherProvider(p) == IF p = postgresql THEN sqlite ELSE postgresql

\* C1 (as claimed, on the templates it names that hold the directUrl line):
\* for every template holding the placeholder declaration and the directUrl
\* line, a run with sqlite followed by a run with postgresql on the result
\* leaves a schema with the directUrl line, the literal "postgresql" and no
\* placeholder.
C1_RoundTrip ==
  (provs = << sqlite, postgresql >>
     /\ Placeholders(template0) >= 1 /\ DirectUrls(template0) >= 1)
    => /\ DirectUrls(schema) >= 1
       /\ Literals(schema, postgresql) >= 1
       /\ Placeholders(schema) = 0

\* C2 (as claimed): a second run with the same provider leaves the schema file
\* unchanged, for every template, also one with several provider declarations.
C2_IdempotentAnyTemplate ==
  (Len(provs) >= 2 /\ provs[Len(provs) - 1] = LastProvider)
    => schema = prevSchema

\* C2 (amended): a second run with the same provider leaves the schema file
\* unchanged for every template of whole lines that holds at most one
\* placeholder declaration.
C2_IdempotentOnePlaceholder ==
  (Len(provs) >= 2 /\ provs[Len(provs) - 1] = LastProvider
     /\ Placeholders(template0) <= 1)
    => schema = prevSchema

\* C2 witness: two sqlite runs on a template with one placeholder and two
\* directUrl lines, the first of which rewrote the file.
C2_Witness ==
  /\ provs = << sqlite, sqlite >>
  /\ Placeholders(template0) = 1
  /\ DirectUrls(template0) = 2
  /\ prevSchema # template0
  /\ schema = prevSchema

\* The provider declarations of a text, placeholder or literal.
Declarations(text) ==
  Placeholders(text) + Literals(text, postgresql) + Literals(text, sqlite)

\* C3 (as claimed, on templates with one provider declaration): after a run
\* with provider p the schema holds exactly one concrete provider literal, that
\* of p, no placeholder, and the directUrl line if and only if p is postgresql.
C3_PostGeneration ==
  (Len(provs) >= 1 /\ Declarations(template0) = 1)
    => /\ Literals(schema, LastProvider) = 1
       /\ Literals(schema, OtherProvider(LastProvider)) = 0
       /\ Placeholders(schema) = 0
       /\ (DirectUrls(schema) >= 1) <=> (LastProvider = postgresql)

\* --------------------------------------------------- claims on prisma-env

Range(seq) == {seq[i] : i \in 1..Len(seq)}

\* The value the first line of the file that assigns `key` gives it, or Absent.
RECURSIVE firstDefinition(_, _)
firstDefinition(lines, key) ==
  IF Len(lines) = 0 THEN Absent
  ELSE LET e == applyLine(EmptyEnv, lines[1])
       IN  IF IsSet(e, key) THEN e[key] ELSE firstDefinition(Tail(lines), key)

FirstDefinition(key) ==
  IF envFile = NoFile THEN Absent ELSE firstDefinition(split(envFile), key)

\* process.env[key], Absent when it is undefined.
Get(e, key) == IF IsSet(e, key) THEN e[key] ELSE Absent

\* C4 (as claimed): after loadEnvFile every variable that was in the
\* environment before the load, with any value, the empty string included,
\* still has its original value.
C4_NeverOverwrites ==
  pc = "args" => \A k \in DOMAIN env0 : Get(env, k) = env0[k]

\* C5 (as claimed): after configureDatabaseEnv() returns, DATABASE_URL is set
\* and non-empty, DATABASE_PROVIDER is the classification of DATABASE_URL,
\* DIRECT_URL is set if and only if the provider is postgresql or it was set
\* before, it mirrors DATABASE_URL when the provider is postgresql and it was
\* unset, and a DATABASE_URL or DIRECT_URL set before is never changed.
C5_ConfigureAsClaimed ==
  pc = "generate"
    => /\ Truthy(env, DATABASE_URL)
       /\ IsSet(env, DATABASE_PROVIDER)
       /\ Get(env, DATABASE_PROVIDER) = getDatabaseProvider(env)
       /\ IsSet(env, DIRECT_URL)
            <=> (provider = postgresql \/ IsSet(envAtConfigure, DIRECT_URL))
       /\ (provider = postgresql /\ ~IsSet(envAtConfigure, DIRECT_URL))
            => Get(env, DIRECT_URL) = Get(env, DATABASE_URL)
       /\ IsSet(envAtConfigure, DATABASE_URL)
            => Get(env, DATABASE_URL) = Get(envAtConfigure, DATABASE_URL)
       /\ IsSet(envAtConfigure, DIRECT_URL)
            => Get(env, DIRECT_URL) = Get(envAtConfigure, DIRECT_URL)

\* C5 (amended): as claimed, with "set before" read as "set to a non-empty
\* value before" where a value is kept or mirrored: DIRECT_URL mirrors
\* DATABASE_URL when the provider is postgresql and it was unset or empty, and
\* a non-empty DATABASE_URL or DIRECT_URL set before is never changed.
C5_Configure ==
  pc = "generate"
    => /\ Truthy(env, DATABASE_URL)
       /\ IsSet(env, DATABASE_PROVIDER)
       /\ Get(env, DATABASE_PROVIDER) = getDatabaseProvider(env)
       /\ IsSet(env, DIRECT_URL)
            <=> (provider = postgresql \/ IsSet(envAtConfigure, DIRECT_URL))
       /\ (provider = postgresql /\ ~Truthy(envAtConfigure, DIRECT_URL))
            => Get(env, DIRECT_URL) = Get(env, DATABASE_URL)
       /\ Truthy(envAtConfigure, DATABASE_URL)
            => Get(env, DATABASE_URL) = Get(envAtConfigure, DATABASE_URL)
       /\ Truthy(envAtConfigure, DIRECT_URL)
            => Get(env, DIRECT_URL) = Get(envAtConfigure, DIRECT_URL)

\* C5 witness: DATABASE_URL = postgresql://h and no DIRECT_URL before, and
\* configureDatabaseEnv() has mirrored it.
C5_Witness ==
  /\ pc = "generate"
  /\ ~IsSet(envAtConfigure, DIRECT_URL)
  /\ Get(envAtConfigure, DATABASE_URL) = PgUrl
  /\ provider = postgresql
  /\ Get(env, DIRECT_URL) = PgUrl
  /\ Get(env, DATABASE_PROVIDER) = postgresql

\* The schema generator child ran to its end and wrote the schema.
GeneratorSucceeded ==
  /\ GenerateSchemaCommand \in Range(spawned)
  /\ Len(provs) = 1
  /\ schema = generatedSchema(template0, childProvider)

\* C7: with no command nothing is spawned and nothing configured; after a
\* failed schema generator the command is never run; the command runs only
\* after a command was given, the environment configured and the schema
\* generator succeeded, in that order.
C7_FatalAborts ==
  /\ command = << >> => (spawned = << >> /\ ~configured /\ ~dirCreated)
  /\ spawned # << >> => configured
  /\ (GenerateSchemaCommand \in Range(spawned) /\ ~GeneratorSucceeded)
       => (RequestedCommand \notin Range(spawned) /\ pc = "exited")
  /\ RequestedCommand \in Range(spawned)
       => /\ command # << >>
          /\ configured
          /\ GeneratorSucceeded
          /\ spawned = << GenerateSchemaCommand, RequestedCommand >>

\* C7 witness: the schema generator child failed and the script has ended
\* without running the command that was given.
C7_Witness ==
  /\ pc = "exited"
  /\ command # << >>
  /\ spawned = << GenerateSchemaCommand >>
  /\ ~GeneratorSucceeded
  /\ exitCode = << 1 >>

\* C8: the exit code is 0 exactly when a command was given, setup and schema
\* generation succeeded and the command exited 0; it is 1 on a usage error or a
\* setup failure; otherwise it is the command's own non-zero exit code, or 1
\* when the status is not available.
C8_ExitCode ==
  pc = "exited"
    => /\ exitCode # Null
       /\ exitCode = << 0 >>
            <=> /\ command # << >>
                /\ configured
                /\ GeneratorSucceeded
                /\ RequestedCommand \in Range(spawned)
                /\ cmdStatus = << 0 >>
       /\ command = << >> => exitCode = << 1 >>
       /\ RequestedCommand \notin Range(spawned) => exitCode = << 1 >>
       /\ (RequestedCommand \in Range(spawned) /\ cmdStatus = Null)
            => exitCode = << 1 >>
       /\ (RequestedCommand \in Range(spawned) /\ cmdStatus # Null)
            => exitCode = cmdStatus

\* C8 witness: the command exited with status 2 and so did the script.
C8_Witness ==
  /\ pc = "exited"
  /\ RequestedCommand \in Range(spawned)
  /\ cmdStatus = << 2 >>
  /\ exitCode = << 2 >>

HandedOver == {DATABASE_URL, DIRECT_URL, DATABASE_PROVIDER}

\* C10: the child's reload of .env changes none of DATABASE_URL, DIRECT_URL
\* and DATABASE_PROVIDER as the parent handed them over, and the provider
\* literal the child writes is the DATABASE_PROVIDER the parent set and the
\* provider the parent reports.
C10_ParentChildAgree ==
  GenerateSchemaCommand \in Range(spawned)
    => /\ \A k \in HandedOver :
            /\ IsSet(childEnv, k) <=> IsSet(env, k)
            /\ IsSet(env, k) => Get(childEnv, k) = Get(env, k)
       /\ GeneratorSucceeded
            => /\ childProvider = Get(env, DATABASE_PROVIDER)
               /\ childProvider = provider
               /\ Literals(schema, provider) = 1
               /\ Literals(schema, OtherProvider(provider)) = 0
               /\ Placeholders(schema) = 0

\* C10 witness: the process was started with DATABASE_URL = file:x, the .env
\* file assigns DATABASE_URL = postgresql://f, and the child has written sqlite.
C10_Witness ==
  /\ GeneratorSucceeded
  /\ env0 = envOf([k \in {DATABASE_URL} |-> FileUrl])
  /\ FirstDefinition(DATABASE_URL) = PgFileUrl
  /\ provider = sqlite
  /\ Literals(schema, sqlite) = 1

\* ------------------------------------------------ claims on the classifier

\* DATABASE_URL is present and begins with postgresql://
IsNetworked(e) ==
  /\ IsSet(e, DATABASE_URL)
  /\ Len(e[DATABASE_URL]) >= Len(PostgresqlPrefix)
  /\ \A i \in 1..Len(PostgresqlPrefix) : e[DATABASE_URL][i] = PostgresqlPrefix[i]

\* C6: the classifier answers postgresql if and only if DATABASE_URL is
\* present and begins with postgresql://, and sqlite for every other value,
\* absent and empty included; the three copies of it agree.
C6_Classification ==
  /\ getDatabaseProvider(env) = (IF IsNetworked(env) THEN postgresql ELSE sqlite)
  /\ getDatabaseProviderGen(env) = getDatabaseProvider(env)
  /\ TruthyValue(isCloudMode(env)) <=> (getDatabaseProvider(env) = postgresql)
  /\ pc \in {"post-generate", "post-push", "exited"}
       => (TruthyValue(cloudMode) <=> IsNetworked(env))

\* C6 witness: DATABASE_URL = postgres://h was classified as local, and the
\* local db push has run.
C6_Witness ==
  /\ pc = "exited"
  /\ Get(env, DATABASE_URL) = PostgresUrl
  /\ cloudMode = "false"
  /\ PushLocalStep \in Range(events)

\* ------------------------------------------------- claims on postinstall

====
